---------------------------- MODULE Spec2Model ----------------------------
(***************************************************************************)
(* Model of the OpenAI relay in src/main.py: the two proxied handlers      *)
(* proxy_post (POST /v1/{path}) and proxy_get (GET /v1/{path}), the        *)
(* rewrite of the request body for the o1 models, and the streaming of     *)
(* the upstream response back to the caller.                               *)
(*                                                                         *)
(* Strings the handlers take apart (the Authorization header) are          *)
(* sequences of characters; JSON values are tagged records; a JSON object  *)
(* is a function from its keys to JSON values.                             *)
(***************************************************************************)
EXTENDS Integers, Sequences, FiniteSets, TLC

VARIABLES
    pc,              \* position of the handler serving the current request
    request,         \* the inbound request: method, path, authorization, raw body
    upstream,        \* what the upstream answers to a call: status and chunks
    openai_api_key,  \* local of the handlers (lines 45, 97)
    body,            \* local of proxy_post: the parsed, then rewritten body
    bodyRead,        \* whether `await request.json()` was evaluated
    calls,           \* outbound requests issued to the upstream for this request
    pending,         \* chunks response.iter_content has still to yield
    reply            \* the response handed to the caller

vars == <<pc, request, upstream, openai_api_key, body, bodyRead, calls, pending, reply>>

----------------------------------------------------------------------------
(* Bounds of the exploration *)

MaxSegs == 3      \* pieces an Authorization header value is made of
MaxParams == 1    \* optional parameters present in a body, beside the budgets
MaxMsgs == 2      \* entries of a `messages` list
MaxChunks == 2    \* chunks of an upstream response

----------------------------------------------------------------------------
(* Strings as character sequences *)

BearerPrefix == <<"B", "e", "a", "r", "e", "r", " ">>

LowerBearer == <<"b", "e", "a", "r", "e", "r", " ">>

TokenScheme == <<"T", "o", "k", "e", "n", " ">>

Lower(c) == IF c = "B" THEN "b" ELSE IF c = "T" THEN "t" ELSE c

\* str.startswith, but blind to case
startswith_anycase(s, prefix) ==
    /\ Len(s) >= Len(prefix)
    /\ \A i \in 1..Len(prefix) : Lower(s[i]) = Lower(prefix[i])

\* str.startswith
startswith(s, prefix) ==
    /\ Len(s) >= Len(prefix)
    /\ SubSeq(s, 1, Len(prefix)) = prefix

\* index of the first occurrence of sep in s, 0 when there is none (str.find)
find(s, sep) ==
    LET hits == {i \in 1..(Len(s) - Len(sep) + 1) : SubSeq(s, i, i + Len(sep) - 1) = sep}
    IN  IF hits = {} THEN 0 ELSE CHOOSE i \in hits : \A j \in hits : i <= j

RECURSIVE split(_, _)
\* str.split(sep): the pieces between the occurrences of sep, left to right
split(s, sep) ==
    LET i == find(s, sep)
    IN  IF i = 0
        THEN <<s>>
        ELSE <<SubSeq(s, 1, i - 1)>> \o split(SubSeq(s, i + Len(sep), Len(s)), sep)

\* authorization.split("Bearer ")[-1]
api_key_of(authorization) ==
    LET parts == split(authorization, BearerPrefix)
    IN  parts[Len(parts)]

----------------------------------------------------------------------------
(* JSON values *)

Absent == [t |-> "absent"]     \* marks a key a dict does not have
Null == [t |-> "null"]
Str(s) == [t |-> "str", s |-> s]
Num(n) == [t |-> "int", n |-> n]
List(items) == [t |-> "list", items |-> items]
Obj(f) == [t |-> "obj", f |-> f]

EmptyDict == [k \in {} |-> Null]

\* dict.get(key, default)
Get(d, key, default) == IF key \in DOMAIN d THEN d[key] ELSE default

\* dict.pop(key, None)
Pop(d, key) == [k \in (DOMAIN d) \ {key} |-> d[k]]

\* d[key] = value
Put(d, key, value) == [k \in (DOMAIN d) \cup {key} |-> IF k = key THEN value ELSE d[k]]

----------------------------------------------------------------------------
(* Constants of the program *)

OPENAI_API_BASE == "https://api.openai.com"

O1_MODELS == {"o1-preview", "o1-mini"}

UNSUPPORTED_PARAMETERS ==
    <<"temperature", "top_p", "n", "presence_penalty", "frequency_penalty",
      "stream", "functions", "function_call", "logit_bias", "user", "system_prompt">>

DefaultMaxCompletionTokens == 25000

Unauthorized == "Authorization header with Bearer token is required"

InvalidJSON == "Invalid JSON data"

----------------------------------------------------------------------------
(* The rewrite of proxy_post, lines 56-75 *)

\* `model in O1_MODELS`, gone wrong: every model is taken for an o1 model
is_o1_model_always(model) == TRUE

\* `model in O1_MODELS`
is_o1_model(model) == model.t = "str" /\ model.s \in O1_MODELS

RECURSIVE pop_from(_, _, _)
pop_from(d, params, i) ==
    IF i > Len(params) THEN d ELSE pop_from(Pop(d, params[i]), params, i + 1)

\* the loop of lines 61-62, gone wrong: nothing is removed
remove_unsupported_noop(d) == d

\* the loop of lines 61-62
remove_unsupported(d) == pop_from(d, UNSUPPORTED_PARAMETERS, 1)

\* lines 65-70
normalize_budget(d) ==
    IF "max_tokens" \in DOMAIN d
    THEN Put(Pop(d, "max_tokens"), "max_completion_tokens", d["max_tokens"])
    ELSE Put(d, "max_completion_tokens", Num(DefaultMaxCompletionTokens))

\* msg.get("role") != "system", for a msg that is a dict
keeps(msg) ==
    LET role == Get(msg.f, "role", Null)
    IN  ~(role.t = "str" /\ role.s = "system")

\* the test of line 74, gone wrong: a message without a role is dropped too
keeps_only_with_role(msg) == "role" \in DOMAIN msg.f /\ keeps(msg)

\* the test of line 74
keeps_message(msg) == keeps(msg)

\* What iterating body.get("messages", []) and calling msg.get on each entry
\* raises: "" when the comprehension of lines 73-75 runs to its end.
messages_raises(messages) ==
    CASE messages.t = "list" ->
            IF \E i \in 1..Len(messages.items) : messages.items[i].t # "obj"
            THEN "AttributeError" ELSE ""
      [] messages.t = "str" -> IF messages.s = "" THEN "" ELSE "AttributeError"
      [] messages.t = "obj" -> IF DOMAIN messages.f = {} THEN "" ELSE "AttributeError"
      [] OTHER -> "TypeError"

\* the comprehension of lines 73-75, for a value it does not raise on
filter_messages(messages) ==
    IF messages.t = "list" THEN SelectSeq(messages.items, keeps_message) ELSE <<>>

\* lines 59-75 on the dict d of an o1 model
rewrite_o1(d) ==
    LET d1 == remove_unsupported(d)
        d2 == normalize_budget(d1)
        messages == Get(d2, "messages", List(<<>>))
        raises == messages_raises(messages)
    IN  IF raises # ""
        THEN [raises |-> raises, value |-> Null]
        ELSE [raises |-> "", value |-> Obj(Put(d2, "messages", List(filter_messages(messages))))]

\* lines 56-75 on the parsed body b: the exception raised ("" when none) and
\* the body to forward
rewrite(b) ==
    IF b.t # "obj"
    THEN [raises |-> "AttributeError", value |-> Null]    \* b.get, line 57
    ELSE IF is_o1_model(Get(b.f, "model", Str("")))
         THEN rewrite_o1(b.f)
         ELSE [raises |-> "", value |-> b]

----------------------------------------------------------------------------
(* request.json(), line 52: json.loads of the raw bytes of the body *)

json_loads(raw) ==
    CASE raw.kind = "json" -> [raises |-> "", value |-> raw.value]
      [] raw.kind = "undecodable" -> [raises |-> "UnicodeDecodeError", value |-> Null]
      [] OTHER -> [raises |-> "JSONDecodeError", value |-> Null]

----------------------------------------------------------------------------
(* The requests and upstream answers explored *)

RECURSIVE SeqsUpTo(_, _)
\* the sequences over S of length at most n
SeqsUpTo(S, n) ==
    IF n = 0 THEN {<<>>}
    ELSE LET shorter == SeqsUpTo(S, n - 1)
         IN  shorter \cup {Append(q, x) : q \in shorter, x \in S}

RECURSIVE Concat(_)
Concat(pieces) == IF pieces = <<>> THEN <<>> ELSE Head(pieces) \o Concat(Tail(pieces))

Header(value) == [present |-> TRUE, value |-> value]

NoHeader == [present |-> FALSE, value |-> <<>>]

Pieces == {BearerPrefix, LowerBearer, TokenScheme, <<"a", "b", "c">>, <<"x", " ">>}

\* absent, empty, and every concatenation of at most MaxSegs pieces
Headers == {NoHeader} \cup {Header(Concat(ps)) : ps \in SeqsUpTo(Pieces, MaxSegs)}

GoodHeader == Header(BearerPrefix \o <<"a", "b", "c">>)

FewHeaders == {NoHeader, Header(TokenScheme \o <<"a", "b", "c">>), GoodHeader}

Field(key, value) == IF value = Absent THEN EmptyDict ELSE key :> value

Message(role, content) == Obj(Field("role", role) @@ ("content" :> Str(content)))

SystemMessage == Message(Str("system"), "x")

UserMessage == Message(Str("user"), "y")

Entries ==
    {SystemMessage, UserMessage, Message(Absent, "z"), Message(Str("System"), "w"),
     Message(Null, "v"), Str("hi")}

Models == {Absent, Str("o1-preview"), Str("o1-mini"), Str("gpt-4o"), Num(1)}

ParamKeys == {UNSUPPORTED_PARAMETERS[i] : i \in DOMAIN UNSUPPORTED_PARAMETERS} \cup {"seed"}

ParamDict(keys) == [k \in keys |-> Num(1)]

ParamSets == {ks \in SUBSET ParamKeys : Cardinality(ks) <= MaxParams}

Budgets == {Absent, Num(500)}

CompletionBudgets == {Absent, Num(100)}

\* bodies that vary in their parameters
ParamBodies ==
    {Obj(Field("model", m) @@ Field("max_tokens", mt) @@ Field("max_completion_tokens", mct)
         @@ ParamDict(ps) @@ Field("messages", msgs)) :
        m \in Models, mt \in Budgets, mct \in CompletionBudgets, ps \in ParamSets,
        msgs \in {Absent, List(<<SystemMessage, UserMessage>>)}}

MessagesValues ==
    {Absent, Null, Str("hi"), Str(""), Num(5), Obj(EmptyDict), Obj("a" :> Num(1))}
        \cup {List(q) : q \in SeqsUpTo(Entries, MaxMsgs)}

\* bodies that vary in their messages
MessageBodies ==
    {Obj(Field("model", m) @@ Field("max_tokens", mt) @@ Field("messages", msgs)) :
        m \in Models, mt \in Budgets, msgs \in MessagesValues}

Json(value) == [kind |-> "json", value |-> value]

NoBody == [kind |-> "empty", value |-> Null]

\* raw bodies json.loads raises on, and JSON texts that are no object
OddBodies ==
    {NoBody, [kind |-> "malformed", value |-> Null], [kind |-> "undecodable", value |-> Null],
     Json(List(<<Num(1)>>)), Json(Str("not-json")), Json(Null)}

FewBodies ==
    OddBodies \cup
    {Json(Obj(("model" :> Str("gpt-4o")) @@ ("max_tokens" :> Num(500)))),
     Json(Obj(("model" :> Str("o1-mini")) @@ ("max_tokens" :> Num(500))
              @@ ("messages" :> List(<<SystemMessage, UserMessage>>)))),
     Json(Obj(("model" :> Str("o1-mini")) @@ ("messages" :> Null)))}

Bodies == FewBodies \cup {Json(b) : b \in ParamBodies \cup MessageBodies}

Paths == {"chat/completions", "models"}

Statuses == {200, 401, 500}

Answers == [status : Statuses, chunks : SeqsUpTo({"c1", "c2"}, MaxChunks)]

PlainAnswer == [status |-> 200, chunks |-> <<"c1">>]

Scenario(method, path, authorization, raw, answer) ==
    [request |-> [method |-> method, path |-> path, authorization |-> authorization,
                  raw |-> raw],
     answer |-> answer]

\* each of header, body and upstream answer is varied with the others kept plain
Scenarios ==
    {Scenario(m, "chat/completions", h, b, PlainAnswer) :
        m \in {"POST", "GET"}, h \in Headers, b \in {NoBody, Json(Null)}}
    \cup {Scenario("POST", "chat/completions", h, b, PlainAnswer) :
        h \in FewHeaders, b \in Bodies}
    \cup {Scenario(m, p, GoodHeader, b, a) :
        m \in {"POST", "GET"}, p \in Paths,
        b \in {NoBody, Json(Obj("model" :> Str("gpt-4o")))}, a \in Answers}

----------------------------------------------------------------------------
(* Responses to the caller *)

NoReply == [status |-> 0, kind |-> "none", msg |-> "", chunks |-> <<>>]

\* raise HTTPException(status_code=..., detail=...)
HTTPException(status, detail) ==
    [status |-> status, kind |-> "detail", msg |-> detail, chunks |-> <<>>]

\* JSONResponse(content={"error": ...}, status_code=...)
JSONResponse(error, status) ==
    [status |-> status, kind |-> "error", msg |-> error, chunks |-> <<>>]

\* an exception no handler catches: the server answers 500
ServerError(exception) ==
    [status |-> 500, kind |-> "exception", msg |-> exception, chunks |-> <<>>]

\* StreamingResponse(iterator, status_code=...), before the first chunk
StreamingResponse(status) ==
    [status |-> status, kind |-> "stream", msg |-> "", chunks |-> <<>>]

openai_url(path) == <<OPENAI_API_BASE, "/v1/", path>>

----------------------------------------------------------------------------
(* The handlers *)

Init ==
    /\ pc = "idle"
    /\ request = Scenario("GET", "models", NoHeader, NoBody, PlainAnswer).request
    /\ upstream = PlainAnswer
    /\ openai_api_key = <<>>
    /\ body = Null
    /\ bodyRead = FALSE
    /\ calls = <<>>
    /\ pending = <<>>
    /\ reply = NoReply

\* a request arrives; every request starts from fresh locals
Receive ==
    /\ pc = "idle"
    /\ \E sc \in Scenarios :
        /\ request' = sc.request
        /\ upstream' = sc.answer
    /\ pc' = "auth"
    /\ openai_api_key' = <<>>
    /\ body' = Null
    /\ bodyRead' = FALSE
    /\ calls' = <<>>
    /\ pending' = <<>>
    /\ reply' = NoReply

\* `not authorization or not authorization.startswith("Bearer ")`
auth_missing(authorization) ==
    \/ ~authorization.present
    \/ authorization.value = <<>>
    \/ ~startswith(authorization.value, BearerPrefix)

\* lines 41-42 and 93-94
AuthReject ==
    /\ pc = "auth"
    /\ auth_missing(request.authorization)
    /\ reply' = HTTPException(401, Unauthorized)
    /\ pc' = "done"
    /\ UNCHANGED <<request, upstream, openai_api_key, body, bodyRead, calls, pending>>

\* lines 45-48 and 97-100
AuthAccept ==
    /\ pc = "auth"
    /\ ~auth_missing(request.authorization)
    /\ openai_api_key' = api_key_of(request.authorization.value)
    /\ pc' = IF request.method = "POST" THEN "parse" ELSE "forward"
    /\ UNCHANGED <<request, upstream, body, bodyRead, calls, pending, reply>>

\* lines 51-54, the body does not parse and the handler catches it
ParseInvalid ==
    /\ pc = "parse"
    /\ json_loads(request.raw).raises = "JSONDecodeError"
    /\ bodyRead' = TRUE
    /\ reply' = JSONResponse(InvalidJSON, 400)
    /\ pc' = "done"
    /\ UNCHANGED <<request, upstream, openai_api_key, body, calls, pending>>

\* line 52, json.loads raises what line 53 does not catch
ParseRaises ==
    /\ pc = "parse"
    /\ json_loads(request.raw).raises \notin {"", "JSONDecodeError"}
    /\ bodyRead' = TRUE
    /\ reply' = ServerError(json_loads(request.raw).raises)
    /\ pc' = "done"
    /\ UNCHANGED <<request, upstream, openai_api_key, body, calls, pending>>

\* line 52, the body parses
ParseOk ==
    /\ pc = "parse"
    /\ json_loads(request.raw).raises = ""
    /\ bodyRead' = TRUE
    /\ body' = json_loads(request.raw).value
    /\ pc' = "rewrite"
    /\ UNCHANGED <<request, upstream, openai_api_key, calls, pending, reply>>

\* lines 56-75 raise: nothing catches it
RewriteRaises ==
    /\ pc = "rewrite"
    /\ rewrite(body).raises # ""
    /\ reply' = ServerError(rewrite(body).raises)
    /\ pc' = "done"
    /\ UNCHANGED <<request, upstream, openai_api_key, body, bodyRead, calls, pending>>

\* lines 56-75
RewriteOk ==
    /\ pc = "rewrite"
    /\ rewrite(body).raises = ""
    /\ body' = rewrite(body).value
    /\ pc' = "forward"
    /\ UNCHANGED <<request, upstream, openai_api_key, bodyRead, calls, pending, reply>>

\* requests.post(...), lines 79-84
post_call ==
    [method |-> "POST", url |-> openai_url(request.path),
     authorization |-> BearerPrefix \o openai_api_key,
     content_type |-> "application/json", json |-> body]

\* requests.get(...), lines 103-107
get_call ==
    [method |-> "GET", url |-> openai_url(request.path),
     authorization |-> BearerPrefix \o openai_api_key,
     content_type |-> "", json |-> Absent]

\* lines 79-87: the call is issued, the upstream answers, the response starts
ForwardPost ==
    /\ pc = "forward"
    /\ request.method = "POST"
    /\ calls' = Append(calls, post_call)
    /\ pending' = upstream.chunks
    /\ reply' = StreamingResponse(upstream.status)
    /\ pc' = "stream"
    /\ UNCHANGED <<request, upstream, openai_api_key, body, bodyRead>>

\* lines 103-110
ForwardGet ==
    /\ pc = "forward"
    /\ request.method = "GET"
    /\ calls' = Append(calls, get_call)
    /\ pending' = upstream.chunks
    /\ reply' = StreamingResponse(upstream.status)
    /\ pc' = "stream"
    /\ UNCHANGED <<request, upstream, openai_api_key, body, bodyRead>>

\* what the response sends when the iterator yields chunk
relay(sent, chunk) == Append(sent, chunk)

\* the response takes the next chunk of response.iter_content and sends it
StreamChunk ==
    /\ pc = "stream"
    /\ pending # <<>>
    /\ reply' = [reply EXCEPT !.chunks = relay(reply.chunks, Head(pending))]
    /\ pending' = Tail(pending)
    /\ UNCHANGED <<pc, request, upstream, openai_api_key, body, bodyRead, calls>>

\* the iterator is exhausted: the response is complete
StreamEnd ==
    /\ pc = "stream"
    /\ pending = <<>>
    /\ pc' = "done"
    /\ UNCHANGED <<request, upstream, openai_api_key, body, bodyRead, calls, pending, reply>>

\* the response is complete and the request is over: nothing of it is kept
Close ==
    /\ pc = "done"
    /\ pc' = "idle"
    /\ request' = Scenario("GET", "models", NoHeader, NoBody, PlainAnswer).request
    /\ upstream' = PlainAnswer
    /\ openai_api_key' = <<>>
    /\ body' = Null
    /\ bodyRead' = FALSE
    /\ calls' = <<>>
    /\ pending' = <<>>
    /\ reply' = NoReply

Next ==
    \/ Receive
    \/ AuthReject
    \/ AuthAccept
    \/ ParseInvalid
    \/ ParseRaises
    \/ ParseOk
    \/ RewriteRaises
    \/ RewriteOk
    \/ ForwardPost
    \/ ForwardGet
    \/ StreamChunk
    \/ StreamEnd
    \/ Close

Spec == Init /\ [][Next]_vars

TypeOK ==
    /\ pc \in {"idle", "auth", "parse", "rewrite", "forward", "stream", "done"}
    /\ bodyRead \in BOOLEAN
    /\ Len(calls) <= 1

----------------------------------------------------------------------------
(* Vocabulary of the properties, stated on the inbound request itself *)

\* the header is absent or does not begin with "Bearer "
BadHeader(authorization) ==
    \/ ~authorization.present
    \/ \E i \in 1..Len(BearerPrefix) :
          i > Len(authorization.value) \/ authorization.value[i] # BearerPrefix[i]

\* the inbound body, as parsed
Inbound == request.raw.value

\* the request is a POST with a Bearer header whose body is a JSON object
ObjectPost ==
    /\ pc # "idle"
    /\ request.method = "POST"
    /\ ~BadHeader(request.authorization)
    /\ request.raw.kind = "json"
    /\ Inbound.t = "obj"

\* ... whose model is one of the Restricted Model Set
RestrictedPost ==
    /\ ObjectPost
    /\ "model" \in DOMAIN Inbound.f
    /\ Inbound.f["model"].t = "str"
    /\ Inbound.f["model"].s \in O1_MODELS

IsSystem(msg) ==
    /\ msg.t = "obj"
    /\ "role" \in DOMAIN msg.f
    /\ msg.f["role"].t = "str"
    /\ msg.f["role"].s = "system"

NotSystem(msg) == ~IsSystem(msg)

Unsupported == {UNSUPPORTED_PARAMETERS[i] : i \in DOMAIN UNSUPPORTED_PARAMETERS}

----------------------------------------------------------------------------
(* C1 *)

\* C1: a request (POST or GET) whose Authorization header is absent or does
\* not begin with "Bearer " is answered 401 with the fixed detail; its body
\* is never read (so never 400) and no call to the upstream is issued.
C1_Unauthorized ==
    (pc # "idle" /\ BadHeader(request.authorization)) =>
        /\ ~bodyRead
        /\ calls = <<>>
        /\ pc \in {"auth", "done"}
        /\ pc = "done" => reply = HTTPException(401, Unauthorized)

\* a POST with the wrong scheme and a body that is no JSON was answered 401
C1_Witness ==
    /\ pc = "done"
    /\ request.method = "POST"
    /\ request.authorization = Header(TokenScheme \o <<"a", "b", "c">>)
    /\ request.raw.kind = "malformed"
    /\ reply.status = 401

(* C2 *)

\* C2: a POST with a Bearer header whose body is not valid JSON is answered
\* 400 with the payload {"error": "Invalid JSON data"}, and no call to the
\* upstream is issued.
C2_InvalidJSON ==
    (pc = "done" /\ request.method = "POST" /\ ~BadHeader(request.authorization)
        /\ request.raw.kind # "json") =>
        /\ reply = JSONResponse(InvalidJSON, 400)
        /\ calls = <<>>

(* C3 *)

\* C3: the body forwarded for a restricted model has none of the eleven
\* unsupported keys, has max_completion_tokens, has no max_tokens, and its
\* messages hold no entry whose role is "system".
C3_Restricted ==
    \A i \in 1..Len(calls) :
        RestrictedPost =>
            LET out == calls[i].json
            IN  /\ out.t = "obj"
                /\ DOMAIN out.f \cap Unsupported = {}
                /\ "max_completion_tokens" \in DOMAIN out.f
                /\ "max_tokens" \notin DOMAIN out.f
                /\ "messages" \in DOMAIN out.f
                /\ out.f["messages"].t = "list"
                /\ \A j \in 1..Len(out.f["messages"].items) :
                      NotSystem(out.f["messages"].items[j])

\* a restricted body with temperature, max_tokens and a system message was forwarded
C3_Witness ==
    /\ RestrictedPost
    /\ Len(calls) = 1
    /\ {"temperature", "max_tokens", "messages"} \subseteq DOMAIN Inbound.f
    /\ Inbound.f["messages"].t = "list"
    /\ \E j \in 1..Len(Inbound.f["messages"].items) : IsSystem(Inbound.f["messages"].items[j])

(* C4 *)

\* C4: a body whose model is absent or not in the Restricted Model Set is
\* forwarded as it was parsed: same keys, same values.
C4_Identity ==
    (ObjectPost /\ ~RestrictedPost /\ pc \in {"stream", "done"}) =>
        /\ Len(calls) = 1
        /\ calls[1].json = Inbound

\* a gpt-4o body with max_tokens, temperature and a system message was forwarded
C4_Witness ==
    /\ ObjectPost
    /\ pc = "done"
    /\ Len(calls) = 1
    /\ {"model", "temperature", "max_tokens", "messages"} \subseteq DOMAIN Inbound.f
    /\ Inbound.f["model"] = Str("gpt-4o")
    /\ calls[1].json.f["temperature"] = Inbound.f["temperature"]

(* C5 *)

\* C5: the rewrite is idempotent on restricted bodies: rewriting the
\* rewritten body gives the rewritten body.
C5_Idempotent ==
    (RestrictedPost /\ pc = "forward") =>
        /\ rewrite(body).raises = ""
        /\ rewrite(body).value = body

(* C6 *)

\* C6: for a restricted body the output max_completion_tokens is the input
\* max_tokens when present; else the input max_completion_tokens when
\* present; else 25000.
C6_Budget ==
    (RestrictedPost /\ pc = "forward") =>
        LET out == body.f["max_completion_tokens"]
        IN  IF "max_tokens" \in DOMAIN Inbound.f
            THEN out = Inbound.f["max_tokens"]
            ELSE IF "max_completion_tokens" \in DOMAIN Inbound.f
                 THEN out = Inbound.f["max_completion_tokens"]
                 ELSE out = Num(25000)

(* C7 *)

\* C7: for a header "Bearer " + t the credential sent upstream is t, all of
\* what follows the first seven characters, for POST and GET.
C7_Credential ==
    \A i \in 1..Len(calls) :
        calls[i].authorization = request.authorization.value

(* C8 *)

\* C8: the rewrite never fails: every body that parses as a JSON object is
\* rewritten and forwarded, never answered with a failure.
C8_Total ==
    (ObjectPost /\ pc = "done") =>
        /\ reply.kind = "stream"
        /\ Len(calls) = 1

(* C9 *)

\* C9: a request that passes the pre-flight checks is answered with the
\* upstream's status code and the upstream's chunks, in order, none dropped,
\* duplicated or altered.
C9_Relay ==
    (pc = "done" /\ ~BadHeader(request.authorization)
        /\ (request.method = "GET" \/ ObjectPost)) =>
        /\ Len(calls) = 1
        /\ reply.status = upstream.status
        /\ reply.chunks = upstream.chunks

\* What lines 79-87 and 103-110 do by themselves: once the upstream was
\* called, the response carries its status, and its chunks in their order.
RelayedFaithfully ==
    (pc = "done" /\ calls # <<>>) =>
        /\ Len(calls) = 1
        /\ reply.kind = "stream"
        /\ reply.status = upstream.status
        /\ reply.chunks = upstream.chunks

(* C10 *)

\* the messages of the inbound body are absent or a list of objects
PlainMessages ==
    \/ "messages" \notin DOMAIN Inbound.f
    \/ /\ Inbound.f["messages"].t = "list"
       /\ \A j \in 1..Len(Inbound.f["messages"].items) :
             Inbound.f["messages"].items[j].t = "obj"

\* C10: for a restricted body the output messages are the input messages
\* whose role is not "system", in their order and unchanged (an entry with
\* no role or another role is kept); the empty list when messages is absent.
C10_Filter ==
    (RestrictedPost /\ PlainMessages /\ pc \in {"forward", "stream", "done"}) =>
        /\ reply.kind # "exception"
        /\ body.t = "obj"
        /\ "messages" \in DOMAIN body.f
        /\ body.f["messages"] =
              List(IF "messages" \in DOMAIN Inbound.f
                   THEN SelectSeq(Inbound.f["messages"].items, NotSystem)
                   ELSE <<>>)

\* a system message was dropped and a message without a role was kept
C10_Witness ==
    /\ RestrictedPost
    /\ pc = "forward"
    /\ "messages" \in DOMAIN Inbound.f
    /\ Inbound.f["messages"] = List(<<SystemMessage, Message(Absent, "z")>>)
    /\ body.f["messages"] = List(<<Message(Absent, "z")>>)

============================================================================
